---- MODULE Spec2Model ----
(***************************************************************************)
(* Image -> Python code converter.                                         *)
(*   src/image_to_python_sketch.py : sampler, emitter, command line        *)
(*   src/gui_app.py                : desktop shell (MainWindow)            *)
(*                                                                         *)
(* Four specifications share the variables below:                          *)
(*   Spec     one call of image_to_points_sketch / image_to_points_color,  *)
(*            statement by statement                                       *)
(*   SpecEmit one call of generate_python_code_sketch / _color             *)
(*   SpecCLI  one run of main()                                            *)
(*   SpecGUI  the MainWindow slots browse / generate / save / preview      *)
(*                                                                         *)
(* Pillow and numpy are not part of the repository.  The calls the source  *)
(* makes into them (Image.open, convert, thumbnail, filter(FIND_EDGES),    *)
(* arr.mean, np.where) are modelled at the call site by what the library   *)
(* computes there.                                                         *)
(***************************************************************************)
EXTENDS Integers, Sequences, FiniteSets, TLC

\* ------------------------------------------------------------------ bounds
\* Largest width / height of an image file.
MaxOrig == 5
\* Largest number of pixels of a grid all of whose two-level fillings are tried.
MaxPixels == 9
\* Largest max_size argument tried (the smallest is -1).
MaxSizeArg == 5
\* Largest width / height handed to an emitter (the smallest is -1).
MaxEmitDim == 3
\* Longest point list handed to an emitter.
MaxEmitPoints == 2
\* Modification times of the files in the working directory: 1 .. MaxMtime.
MaxMtime == 2
\* emitter calls in a row
MaxCalls == 3

\* ------------------------------------------------------- program constants
\* --max-size default (l.155) and the size colour mode swaps it for (l.187)
DefaultMaxSize == 160
ColorDefaultSize == 80
\* max_size_spin: setRange(32, 512) (gui l.270), setValue(160) (gui l.271)
SpinMin == 32
SpinMax == 512
SpinDefault == 160
\* gui l.458: size = max_size if max_size != 160 else 80
GuiSwappedSize == 160
GuiColorSize == 80

\* Grey levels and colours the pixels are drawn from.
Intensities == {0, 100, 255}
Colours == {<<255, 0, 0>>, <<0, 128, 255>>, <<255, 255, 255>>}

VARIABLES
    \* ---- one sampler call (Spec)
    fn,        \* "sketch" | "color": which image_to_points_* runs
    max_size,  \* its max_size argument
    file,      \* the file at image_path: [kind, w, h, uniform]
    pc,        \* position inside the function
    fp,        \* the file handle Image.open acquires: "none"|"open"|"closed"
    held,      \* who still references the image object that owns fp
    size,      \* img.size
    pix,       \* pixels of img after thumbnail, [<<x, y>> -> value]
    arr,       \* np.array(edges)
    ret,       \* what the call returned: [size, points], or <<>>
    exc        \* the exception the call raised, or "none"

svars == <<fn, max_size, file, pc, fp, held, size, pix, arr, ret, exc>>

VARIABLES
    \* ---- one emitter call (SpecEmit)
    e_fn,      \* "sketch" | "color": which generate_python_code_* runs
    e_width,   \* its arguments
    e_height,
    e_points,
    e_pc,      \* "idle" | "ready" | "done"
    e_text,    \* the text it returned, as lines [indent, text]
    e_exc,     \* the exception it raised, or "none"
    e_calls,   \* how many emitter calls were started
    e_prev,    \* one earlier call: [n, fn, width, height, points, text]
    e_effects  \* what the emitter calls did besides returning: I/O, writes

evars == <<e_fn, e_width, e_height, e_points, e_pc, e_text, e_exc,
           e_calls, e_prev, e_effects>>

VARIABLES
    \* ---- one run of main() (SpecCLI)
    c_argv,       \* the command line: [image, max_size, mode]
    c_fs,         \* the files main can see: [name -> entry]
    c_pc,         \* position inside main, "exit" (SystemExit) or "error"
    c_fail,       \* the step that ended the run, or "none"
    c_args,       \* parse_args' result
    c_image_path, \* image_path, "" while unset
    c_sample,     \* outcome of the image_to_points_* call, and its max_size
    c_code,       \* code
    c_out,        \* the file at args.out: [writable, old, text]
    c_count       \* how often main opened an image, wrote args.out, ran it

cvars == <<c_argv, c_fs, c_pc, c_fail, c_args, c_image_path, c_sample, c_code,
           c_out, c_count>>

VARIABLES
    \* ---- the MainWindow (SpecGUI)
    g_fs,              \* the files the application can see
    g_running,         \* the application is alive
    g_path_text,       \* image_path_edit.text()
    g_mode,            \* "sketch" if mode_sketch.isChecked() else "color"
    g_max_size,        \* max_size_spin.value()
    g_current_image,   \* self._current_image, "<None>" for None
    g_current_code,    \* self._current_code, <<>> for ""
    g_code_edit,       \* code_edit.toPlainText()
    g_save_enabled,    \* save_btn.isEnabled()
    g_preview_enabled, \* preview_btn.isEnabled()
    g_status,          \* status_label.text()
    g_dialog,          \* the message box the last slot showed, or "none"
    g_saved,           \* what save_code last wrote: [name, text], or <<>>
    g_previewed,       \* the text preview_code last ran, or <<>>
    g_last             \* the last slot run: [slot, nofile, kept, call]

gvars == <<g_fs, g_running, g_path_text, g_mode, g_max_size, g_current_image,
           g_current_code, g_code_edit, g_save_enabled, g_preview_enabled,
           g_status, g_dialog, g_saved, g_previewed, g_last>>

vars == <<svars, evars, cvars, gvars>>

\* ----------------------------------------------------------- arithmetic
Abs(n) == IF n < 0 THEN -n ELSE n
Max2(a, b) == IF a >= b THEN a ELSE b
\* math.floor(a / b) and math.ceil(a / b) for b > 0
FloorDiv(a, b) == a \div b
CeilDiv(a, b) == -((-a) \div b)

Coords(w, h) == (0 .. w - 1) \X (0 .. h - 1)

\* ------------------------------------------------- Image.thumbnail (l.40)
(* img.thumbnail((max_size, max_size)):                                    *)
(*     x, y = max_size, max_size                                           *)
(*     if x >= width and y >= height: return                               *)
(*     aspect = width / height                                             *)
(*     if x / y >= aspect:                                                 *)
(*         x = round_aspect(y * aspect, key = |aspect - n / y|)            *)
(*     else:                                                               *)
(*         y = round_aspect(x / aspect, key = 0 if n == 0                  *)
(*                                            else |aspect - x / n|)       *)
(*     round_aspect(v, key) = max(min(floor(v), ceil(v), key=key), 1)      *)
(* The keys are compared as exact fractions.  Where the two keys are       *)
(* equal the float rounding of the library decides, so both candidates     *)
(* are possible outcomes.                                                  *)
KeyX(W, H, m, n) == Abs(W * m - n * H)
RoundAspectX(W, H, m) ==
    LET lo == FloorDiv(m * W, H)
        hi == CeilDiv(m * W, H)
        best == {n \in {lo, hi} : \A k \in {lo, hi} : KeyX(W, H, m, n) <= KeyX(W, H, m, k)}
    IN  {Max2(n, 1) : n \in best}

\* key(a) <= key(b) for key(n) = 0 if n == 0 else |W/H - m/n|
KeyYLeq(W, H, m, a, b) ==
    IF a = 0 THEN TRUE
    ELSE IF b = 0 THEN W * a = m * H
    ELSE Abs(W * a - m * H) * Abs(b) <= Abs(W * b - m * H) * Abs(a)
RoundAspectY(W, H, m) ==
    LET lo == FloorDiv(m * H, W)
        hi == CeilDiv(m * H, W)
        best == {n \in {lo, hi} : \A k \in {lo, hi} : KeyYLeq(W, H, m, n, k)}
    IN  {Max2(n, 1) : n \in best}

\* Mutant of ThumbnailSizes: the early return for an image that already fits
\* is missing, so a small image is scaled up to max_size.
ThumbnailSizesEnlarging(W, H, m) ==
    IF H >= W THEN {<<n, m>> : n \in RoundAspectX(W, H, m)}
    ELSE {<<m, n>> : n \in RoundAspectY(W, H, m)}

\* The sizes thumbnail may leave img with, for max_size = m /= 0.
ThumbnailSizes(W, H, m) ==
    IF m >= W /\ m >= H THEN {<<W, H>>}
    ELSE IF H >= W THEN {<<n, m>> : n \in RoundAspectX(W, H, m)}
    ELSE {<<m, n>> : n \in RoundAspectY(W, H, m)}

\* What thumbnail raises, "none" when it returns.
\*   max_size = 0: x / y divides by zero; max_size < 0: resize rejects the size.
ThumbnailError(W, H, m) ==
    IF m = 0 THEN "ZeroDivisionError"
    ELSE IF m < 0 THEN "ValueError"
    ELSE "none"

\* ------------------------------------ img.filter(FIND_EDGES) (l.43)
(* Kernel (-1,-1,-1,-1,8,-1,-1,-1,-1), scale 1, offset 0.  An image        *)
(* smaller than the 3x3 kernel is copied; otherwise the first and last     *)
(* row and column are copied from the input and every inner pixel is the   *)
(* kernel sum clipped to 0..255.                                           *)
Clip8(v) == IF v <= 0 THEN 0 ELSE IF v >= 255 THEN 255 ELSE v
KernelSum(p, x, y) ==
    8 * p[<<x, y>>]
    - p[<<x - 1, y - 1>>] - p[<<x, y - 1>>] - p[<<x + 1, y - 1>>]
    - p[<<x - 1, y>>] - p[<<x + 1, y>>]
    - p[<<x - 1, y + 1>>] - p[<<x, y + 1>>] - p[<<x + 1, y + 1>>]
FindEdges(p, w, h) ==
    IF w < 3 \/ h < 3 THEN p
    ELSE [c \in Coords(w, h) |->
            IF c[1] = 0 \/ c[1] = w - 1 \/ c[2] = 0 \/ c[2] = h - 1
            THEN p[c]
            ELSE Clip8(KernelSum(p, c[1], c[2]))]

\* ------------------------------------ threshold and np.where (l.45-50)
RECURSIVE SumTo(_, _, _)
\* a[0] + ... + a[i-1] over the row-major index
SumTo(a, w, i) ==
    IF i = 0 THEN 0 ELSE SumTo(a, w, i - 1) + a[<<(i - 1) % w, (i - 1) \div w>>]

\* float(arr.mean()): the exact sum over the count, kept as a fraction.
Mean(a, w, h) == <<SumTo(a, w, w * h), w * h>>
\* Mutant of Above: arr >= threshold.
AboveOrEqual(v, threshold) == v * threshold[2] >= threshold[1]
\* arr > threshold, elementwise
Above(v, threshold) == v * threshold[2] > threshold[1]

RECURSIVE WhereFrom(_, _, _, _, _)
\* np.where scans in row-major order; zip(xs, ys) pairs each hit as (x, y).
WhereFrom(a, w, h, threshold, i) ==
    IF i = w * h THEN <<>>
    ELSE LET x == i % w
             y == i \div w
         IN  (IF Above(a[<<x, y>>], threshold) THEN <<<<x, y>>>> ELSE <<>>)
             \o WhereFrom(a, w, h, threshold, i + 1)
EdgePoints(a, w, h) == WhereFrom(a, w, h, Mean(a, w, h), 0)

\* ------------------------------------ colour enumeration (l.63-67)
RECURSIVE ColumnsFrom(_, _, _, _)
\* for x in range(w): points.append((x, y, (r, g, b)))
ColumnsFrom(a, w, y, x) ==
    IF x >= w THEN <<>>
    ELSE <<<<x, y, a[<<x, y>>]>>>> \o ColumnsFrom(a, w, y, x + 1)
RECURSIVE RowsFrom(_, _, _, _)
\* for y in range(h): ...
RowsFrom(a, w, h, y) ==
    IF y >= h THEN <<>>
    ELSE ColumnsFrom(a, w, y, 0) \o RowsFrom(a, w, h, y + 1)
RECURSIVE ColumnMajorFrom(_, _, _, _)
ColumnMajorFrom(a, w, h, i) ==
    IF i >= w * h THEN <<>>
    ELSE <<<<i \div h, i % h, a[<<i \div h, i % h>>]>>>> \o ColumnMajorFrom(a, w, h, i + 1)
\* Mutant of ColorPoints: the two loops swapped (x outer, y inner).
ColorPointsColumnMajor(a, w, h) == ColumnMajorFrom(a, w, h, 0)
ColorPoints(a, w, h) == RowsFrom(a, w, h, 0)

\* --------------------------------------------- the emitters (l.72-128)
Digit == <<"0", "1", "2", "3", "4", "5", "6", "7", "8", "9">>
RECURSIVE StrNat(_)
StrNat(n) == IF n < 10 THEN Digit[n + 1] ELSE StrNat(n \div 10) \o Digit[(n % 10) + 1]
\* str(n) of an int, as {width} and repr put it into the text
Str(n) == IF n < 0 THEN "-" \o StrNat(-n) ELSE StrNat(n)

\* repr of a tuple of ints: (a, b) or (r, g, b)
RECURSIVE ReprInts(_, _)
ReprInts(t, i) ==
    IF i > Len(t) THEN ""
    ELSE (IF i > 1 THEN ", " ELSE "") \o Str(t[i]) \o ReprInts(t, i + 1)
ReprTuple(t) == "(" \o ReprInts(t, 1) \o ")"
\* repr of one point: (x, y) in sketch mode, (x, y, (r, g, b)) in colour mode
ReprPoint(p) ==
    IF Len(p) = 2 THEN ReprTuple(p)
    ELSE "(" \o Str(p[1]) \o ", " \o Str(p[2]) \o ", " \o ReprTuple(p[3]) \o ")"
RECURSIVE ReprPoints(_, _)
ReprPoints(ps, i) ==
    IF i > Len(ps) THEN ""
    ELSE (IF i > 1 THEN ", " ELSE "") \o ReprPoint(ps[i]) \o ReprPoints(ps, i + 1)
\* {points!r}
ReprList(ps) == "[" \o ReprPoints(ps, 1) \o "]"

\* One line of text: its leading spaces and the rest.
Line(i, t) == [indent |-> i, text |-> t]
Blank == Line(0, "")

RECURSIVE MinIndent(_, _, _)
MinIndent(ls, i, best) ==
    IF i > Len(ls) THEN best
    ELSE IF ls[i].text = "" THEN MinIndent(ls, i + 1, best)
    ELSE MinIndent(ls, i + 1, IF best = -1 \/ ls[i].indent < best THEN ls[i].indent ELSE best)
\* textwrap.dedent: strip the leading whitespace common to all non-blank lines.
Dedent(ls) ==
    LET margin == Max2(MinIndent(ls, 1, -1), 0)
    IN  [i \in 1 .. Len(ls) |->
            IF ls[i].text = "" THEN Blank ELSE Line(ls[i].indent - margin, ls[i].text)]

\* l.82-94 and l.110-126 share these lines.
MainGuard ==
    << Blank,
       Blank,
       Line(0, "if __name__ == \"__main__\":"),
       Line(4, "main()") >>
PlotTail ==
    << Line(4, "plt.axis(\"off\")"),
       Line(4, "plt.gca().set_aspect(\"equal\", adjustable=\"box\")"),
       Line(4, "plt.tight_layout()"),
       Line(4, "plt.show()") >>

\* An emitter that stops after the data lines when there is nothing to draw.
GenerateSketchTruncated(width, height, points) ==
    << Line(0, "import matplotlib.pyplot as plt"),
       Blank,
       Line(0, "WIDTH, HEIGHT = " \o Str(width) \o ", " \o Str(height)),
       Line(0, "POINTS = " \o ReprList(points)) >>
    \o (IF points = <<>> THEN <<>>
        ELSE << Blank, Blank, Line(0, "def main():"),
                Line(4, "plt.scatter([p[0] for p in POINTS], [p[1] for p in POINTS])") >>
             \o PlotTail \o MainGuard)

\* generate_python_code_sketch (l.72-96)
GenerateSketch(width, height, points) ==
    Dedent(
      << Line(0, "import matplotlib.pyplot as plt"),
         Blank,
         Line(0, "WIDTH, HEIGHT = " \o Str(width) \o ", " \o Str(height)),
         Line(0, "POINTS = " \o ReprList(points)),
         Blank,
         Blank,
         Line(0, "def main():"),
         Line(4, "xs = [p[0] for p in POINTS]"),
         Line(4, "ys = [HEIGHT - p[1] for p in POINTS]  # flip Y so image isn't upside-down"),
         Blank,
         Line(4, "plt.figure(figsize=(WIDTH / 80, HEIGHT / 80), facecolor=\"white\")"),
         Line(4, "plt.scatter(xs, ys, s=1, c=\"black\", marker=\".\", linewidths=0)") >>
      \o PlotTail \o MainGuard)

\* generate_python_code_color (l.99-128)
GenerateColor(width, height, points) ==
    Dedent(
      << Line(0, "import matplotlib.pyplot as plt"),
         Blank,
         Line(0, "WIDTH, HEIGHT = " \o Str(width) \o ", " \o Str(height)),
         Line(0, "# Each point is (x, y, (r, g, b))"),
         Line(0, "POINTS = " \o ReprList(points)),
         Blank,
         Blank,
         Line(0, "def main():"),
         Line(4, "xs = [p[0] for p in POINTS]"),
         Line(4, "ys = [HEIGHT - p[1] for p in POINTS]  # flip Y so image isn't upside-down"),
         Line(4, "colors = ["),
         Line(8, "(rgb[0] / 255.0, rgb[1] / 255.0, rgb[2] / 255.0)"),
         Line(8, "for (_, _, rgb) in POINTS"),
         Line(4, "]"),
         Blank,
         Line(4, "plt.figure(figsize=(WIDTH / 50, HEIGHT / 50), facecolor=\"white\")"),
         Line(4, "plt.scatter(xs, ys, s=8, c=colors, marker=\"s\", linewidths=0)") >>
      \o PlotTail \o MainGuard)

GenerateCode(mode, width, height, points) ==
    IF mode = "sketch" THEN GenerateSketch(width, height, points)
    ELSE GenerateColor(width, height, points)

\* ------------------------------------------------------ the image file
\* kind: what Pillow makes of the file at image_path
\*   "missing"    no such file: builtins.open raises
\*   "notimage"   no plugin identifies it: Image.open closes the file and raises
\*   "truncated"  identified, but load() raises while decoding
\*   "single"     decodes; load() closes the file of a single-frame image
\*   "multi"      decodes; a multi-frame format (GIF, TIFF) keeps its file open
FileKinds == {"missing", "notimage", "truncated", "single", "multi"}

\* Pixel values after convert("L") / convert("RGB").
Values(mode) == IF mode = "sketch" THEN Intensities ELSE Colours

IsUniform(p) == \A c, d \in DOMAIN p : p[c] = p[d]

\* Which pixels of a two-level grid take the first value: any subset of a
\* grid of at most MaxPixels pixels, at most one pixel of a larger grid.
Masks(w, h) ==
    IF w * h <= MaxPixels THEN SUBSET Coords(w, h)
    ELSE {{}} \cup {{c} : c \in Coords(w, h)}

\* Grids of w x h pixels with at most two distinct values.
TwoLevel(w, h, vals) ==
    {[c \in Coords(w, h) |-> IF c \in m THEN a ELSE b] :
        m \in Masks(w, h), a \in vals, b \in vals}

(* The pixels img holds when thumbnail is done.  Pixel values are not      *)
(* followed through decoding and resampling: a uniform image stays         *)
(* uniform with its value, an image that is not resized keeps its          *)
(* (non-uniform) content, and resampling may produce any grid.             *)
GridsAfter(f, mode, sz) ==
    IF f.uniform THEN {[c \in Coords(sz[1], sz[2]) |-> f.level]}
    ELSE IF sz = <<f.w, f.h>>
         THEN {p \in TwoLevel(sz[1], sz[2], Values(mode)) : ~IsUniform(p)}
         ELSE TwoLevel(sz[1], sz[2], Values(mode))

Files(mode) ==
    {f \in [kind : FileKinds, w : 1 .. MaxOrig, h : 1 .. MaxOrig,
            uniform : BOOLEAN, level : Values(mode)] :
        /\ ~f.uniform => (f.w * f.h > 1 /\ f.level = CHOOSE v \in Values(mode) : TRUE)}

\* ------------------------------------- a whole sampler call, as its outcome
\* opened: Image.open got hold of the file; decoded: convert() loaded it.
Raised(e, o, d) ==
    [exc |-> e, opened |-> o, decoded |-> d, size |-> <<0, 0>>, points |-> <<>>]
PointsOf(mode, p, sz) ==
    IF mode = "sketch" THEN EdgePoints(FindEdges(p, sz[1], sz[2]), sz[1], sz[2])
    ELSE ColorPoints(p, sz[1], sz[2])
\* image_to_points_sketch (l.37-52) / image_to_points_color (l.55-69)
SampleOutcomes(f, mode, m) ==
    IF f.kind = "missing" THEN {Raised("FileNotFoundError", FALSE, FALSE)}
    ELSE IF f.kind = "notimage" THEN {Raised("UnidentifiedImageError", TRUE, FALSE)}
    ELSE IF f.kind = "truncated" THEN {Raised("OSError", TRUE, FALSE)}
    ELSE IF ThumbnailError(f.w, f.h, m) /= "none"
         THEN {Raised(ThumbnailError(f.w, f.h, m), TRUE, TRUE)}
    ELSE UNION {
           {[exc |-> "none", opened |-> TRUE, decoded |-> TRUE, size |-> sz,
             points |-> PointsOf(mode, p, sz)] : p \in GridsAfter(f, mode, sz)} :
           sz \in ThumbnailSizes(f.w, f.h, m)}

\* ------------------------------------------------ one sampler call (Spec)
EmitIdle ==
    /\ e_fn = "sketch" /\ e_width = 0 /\ e_height = 0 /\ e_points = <<>>
    /\ e_pc = "idle" /\ e_text = <<>> /\ e_exc = "none"
    /\ e_calls = 0 /\ e_prev = <<>> /\ e_effects = {}
CliIdle ==
    /\ c_argv = <<>> /\ c_fs = <<>> /\ c_pc = "idle" /\ c_fail = "none"
    /\ c_args = <<>> /\ c_image_path = "" /\ c_sample = <<>> /\ c_code = <<>>
    /\ c_out = <<>> /\ c_count = <<>>
GuiIdle ==
    /\ g_fs = <<>> /\ g_running = FALSE /\ g_path_text = "" /\ g_mode = "sketch"
    /\ g_max_size = 0 /\ g_current_image = "<None>" /\ g_current_code = <<>>
    /\ g_code_edit = <<>> /\ g_save_enabled = FALSE /\ g_preview_enabled = FALSE
    /\ g_status = "" /\ g_dialog = "none" /\ g_saved = <<>> /\ g_previewed = <<>>
    /\ g_last = <<>>
NotSampler == <<evars, cvars, gvars>>

Init ==
    /\ EmitIdle
    /\ CliIdle
    /\ GuiIdle
    /\ fn \in {"sketch", "color"}
    /\ max_size \in -1 .. MaxSizeArg
    /\ file \in Files(fn)
    /\ pc = "call"
    /\ fp = "none"
    /\ held = "none"
    /\ size = <<0, 0>>
    /\ pix = <<>>
    /\ arr = <<>>
    /\ ret = <<>>
    /\ exc = "none"

\* l.39 / l.57: Image.open(image_path)
Open ==
    /\ pc = "call"
    /\ IF file.kind = "missing"
       THEN /\ pc' = "raised"
            /\ exc' = "FileNotFoundError"
            /\ UNCHANGED <<fp, held, size>>
       ELSE IF file.kind = "notimage"
       THEN /\ pc' = "raised"
            /\ exc' = "UnidentifiedImageError"
            /\ fp' = "closed"
            /\ UNCHANGED <<held, size>>
       ELSE /\ pc' = "opened"
            /\ fp' = "open"
            /\ held' = "temporary"
            /\ size' = <<file.w, file.h>>
            /\ UNCHANGED exc
    /\ UNCHANGED <<fn, max_size, file, pix, arr, ret>>
    /\ UNCHANGED NotSampler

\* l.39 / l.57: .convert("L") / .convert("RGB"), which loads the image.
\* The source keeps no name for the opened image and never closes it.
Convert ==
    /\ pc = "opened"
    /\ IF file.kind = "truncated"
       THEN /\ pc' = "raised"
            /\ exc' = "OSError"
            /\ held' = "traceback"
            /\ UNCHANGED fp
       ELSE IF file.kind = "single"
       THEN /\ pc' = "converted"
            /\ fp' = "closed"
            /\ held' = "none"
            /\ UNCHANGED exc
       ELSE /\ pc' = "converted"
            /\ held' = "garbage"
            /\ UNCHANGED <<fp, exc>>
    /\ UNCHANGED <<fn, max_size, file, size, pix, arr, ret>>
    /\ UNCHANGED NotSampler

\* l.40 / l.58: img.thumbnail((max_size, max_size))
Thumbnail ==
    /\ pc = "converted"
    /\ IF ThumbnailError(size[1], size[2], max_size) /= "none"
       THEN /\ pc' = "raised"
            /\ exc' = ThumbnailError(size[1], size[2], max_size)
            /\ UNCHANGED <<size, pix>>
       ELSE /\ pc' = "resized"
            /\ size' \in ThumbnailSizes(size[1], size[2], max_size)
            /\ pix' \in GridsAfter(file, fn, size')
            /\ UNCHANGED exc
    /\ UNCHANGED <<fn, max_size, file, fp, held, arr, ret>>
    /\ UNCHANGED NotSampler

\* l.43-45: arr = np.array(img.filter(ImageFilter.FIND_EDGES))
Filter ==
    /\ pc = "resized"
    /\ fn = "sketch"
    /\ arr' = FindEdges(pix, size[1], size[2])
    /\ pc' = "filtered"
    /\ UNCHANGED <<fn, max_size, file, fp, held, size, pix, ret, exc>>
    /\ UNCHANGED NotSampler

\* l.47-52: threshold, np.where, return (width, height), points
ReturnSketch ==
    /\ pc = "filtered"
    /\ ret' = [size |-> size, points |-> EdgePoints(arr, size[1], size[2])]
    /\ pc' = "returned"
    /\ UNCHANGED <<fn, max_size, file, fp, held, size, pix, arr, exc>>
    /\ UNCHANGED NotSampler

\* l.60-69: arr = np.array(img); the two loops; return (w, h), points
ReturnColor ==
    /\ pc = "resized"
    /\ fn = "color"
    /\ arr' = pix
    /\ ret' = [size |-> size, points |-> ColorPoints(pix, size[1], size[2])]
    /\ pc' = "returned"
    /\ UNCHANGED <<fn, max_size, file, fp, held, size, pix, exc>>
    /\ UNCHANGED NotSampler

\* The runtime frees an image object nothing references any more, which
\* closes its file.  When it does so is up to the runtime.
Collect ==
    /\ held = "garbage"
    /\ fp = "open"
    /\ fp' = "closed"
    /\ held' = "none"
    /\ UNCHANGED <<fn, max_size, file, pc, size, pix, arr, ret, exc>>
    /\ UNCHANGED NotSampler

Next ==
    \/ Open
    \/ Convert
    \/ Thumbnail
    \/ Filter
    \/ ReturnSketch
    \/ ReturnColor
    \/ Collect

Spec == Init /\ [][Next]_vars

\* ------------------------------------------------ one emitter call (SpecEmit)
SamplerIdle ==
    /\ fn = "sketch" /\ max_size = 0
    /\ file = [kind |-> "missing", w |-> 1, h |-> 1, uniform |-> TRUE, level |-> 0]
    /\ pc = "idle" /\ fp = "none" /\ held = "none" /\ size = <<0, 0>>
    /\ pix = <<>> /\ arr = <<>> /\ ret = <<>> /\ exc = "none"

\* Points a caller may hand over, in and out of range.
PointInputs(mode) ==
    IF mode = "sketch" THEN {<<0, 0>>, <<1, 0>>, <<-1, 2>>}
    ELSE {<<0, 0, <<255, 0, 0>>>>, <<1, 0, <<0, 128, 255>>>>, <<0, 1, <<256, -1, 0>>>>}
SeqsUpTo(S, n) == UNION {[1 .. k -> S] : k \in 0 .. n}
\* Widths and heights a caller may hand over.
EmitDims == (-1 .. MaxEmitDim) \cup {10}

InitEmit ==
    /\ SamplerIdle
    /\ CliIdle
    /\ GuiIdle
    /\ e_fn \in {"sketch", "color"}
    /\ e_width \in EmitDims
    /\ e_height \in EmitDims
    /\ e_points \in SeqsUpTo(PointInputs(e_fn), MaxEmitPoints)
    /\ e_pc = "ready"
    /\ e_text = <<>>
    /\ e_exc = "none"
    /\ e_calls = 1
    /\ e_prev = <<>>
    /\ e_effects = {}

\* An emitter that stamps its output with a call counter it keeps in a
\* module global.
EmitCallStateful ==
    /\ e_pc = "ready"
    /\ e_text' = GenerateCode(e_fn, e_width, e_height, e_points)
                      \o << Line(0, "# call " \o Str(e_calls)) >>
    /\ e_pc' = "done"
    /\ e_effects' = e_effects \cup {"global"}
    /\ UNCHANGED <<e_fn, e_width, e_height, e_points, e_exc, e_calls, e_prev>>
    /\ UNCHANGED <<svars, cvars, gvars>>

\* The call: the f-string is formatted from the arguments alone and dedented
\* (l.74-96, l.101-128); nothing is validated, nothing is raised, no name
\* outside the function is read or written and no I/O call is made.
EmitCall ==
    /\ e_pc = "ready"
    /\ e_text' = GenerateCode(e_fn, e_width, e_height, e_points)
    /\ e_pc' = "done"
    /\ UNCHANGED <<e_fn, e_width, e_height, e_points, e_exc>>
    /\ UNCHANGED <<e_calls, e_prev, e_effects>>
    /\ UNCHANGED <<svars, cvars, gvars>>

\* What is remembered of the call that just returned.
ThisCall ==
    [n |-> e_calls, fn |-> e_fn, width |-> e_width, height |-> e_height,
     points |-> e_points, text |-> e_text]
\* Arguments of a later call: those of the call that just returned, those of
\* the remembered call, or fresh ones.
LaterArgs ==
    {[fn |-> e_fn, width |-> e_width, height |-> e_height, points |-> e_points]}
    \cup (IF e_prev = <<>> THEN {}
          ELSE {[fn |-> e_prev.fn, width |-> e_prev.width,
                 height |-> e_prev.height, points |-> e_prev.points]})
    \cup UNION {{[fn |-> f, width |-> w, height |-> 10, points |-> ps] :
                   w \in {1, 10}, ps \in SeqsUpTo(PointInputs(f), 1)} :
                f \in {"sketch", "color"}}

\* The caller calls an emitter again, remembering the last call or keeping
\* the one it remembered before.
EmitAgain ==
    /\ e_pc = "done"
    /\ e_calls < MaxCalls
    /\ e_prev' \in {ThisCall} \cup (IF e_prev = <<>> THEN {} ELSE {e_prev})
    /\ \E a \in LaterArgs :
          /\ e_fn' = a.fn
          /\ e_width' = a.width
          /\ e_height' = a.height
          /\ e_points' = a.points
    /\ e_calls' = e_calls + 1
    /\ e_pc' = "ready"
    /\ e_text' = <<>>
    /\ UNCHANGED <<e_exc, e_effects>>
    /\ UNCHANGED <<svars, cvars, gvars>>

NextEmit == EmitCall \/ EmitAgain

SpecEmit == InitEmit /\ [][NextEmit]_vars

\* ------------------------------------------------ the file system
\* An entry of the working directory: nothing, a directory, or a file with
\* its modification time and what Pillow makes of its content.
NoImage == [kind |-> "missing", w |-> 1, h |-> 1, uniform |-> TRUE, level |-> 0]
Absent == [type |-> "absent", mtime |-> 0, img |-> NoImage]
\* The contents a file of the working directory may have.
Contents(mode) ==
    { [kind |-> "single", w |-> 3, h |-> 3, uniform |-> TRUE, level |-> IF mode = "sketch" THEN 100 ELSE <<255, 0, 0>>],
      [kind |-> "multi", w |-> 2, h |-> 1, uniform |-> FALSE, level |-> CHOOSE v \in Values(mode) : TRUE],
      [kind |-> "truncated", w |-> 1, h |-> 1, uniform |-> TRUE, level |-> CHOOSE v \in Values(mode) : TRUE],
      [kind |-> "notimage", w |-> 1, h |-> 1, uniform |-> TRUE, level |-> CHOOSE v \in Values(mode) : TRUE] }
Entries(mode) ==
    {Absent}
    \cup {[type |-> "dir", mtime |-> t, img |-> NoImage] : t \in 1 .. MaxMtime}
    \cup {[type |-> "file", mtime |-> t, img |-> i] : t \in 1 .. MaxMtime, i \in Contents(mode)}

Names == {"a.png", "b.gif", "notes.txt"}
Suffix == [n \in Names |-> IF n = "a.png" THEN "png" ELSE IF n = "b.gif" THEN "gif" ELSE "txt"]
\* IMAGE_EXTENSIONS (l.10-19)
IMAGE_EXTENSIONS == {"png", "jpg", "jpeg", "webp", "bmp", "gif", "tif", "tiff"}

\* Path.is_file()
IsFile(fs, n) == n \in DOMAIN fs /\ fs[n].type = "file"
\* What a sampler finds at path n.
ImageAt(fs, n) == IF IsFile(fs, n) THEN fs[n].img ELSE NoImage

\* find_latest_image (l.22-34): folder.glob(pattern) for every pattern matches
\* files and directories alike; max by st_mtime.  The result is the set of
\* paths max() may return ({} when SystemExit is raised): among equally new
\* candidates the first in directory order wins, an order the model leaves open.
Candidates(fs) ==
    {n \in DOMAIN fs : fs[n].type /= "absent" /\ Suffix[n] \in IMAGE_EXTENSIONS}
FindLatestImage(fs) ==
    {n \in Candidates(fs) : \A k \in Candidates(fs) : fs[k].mtime <= fs[n].mtime}

\* ------------------------------------------------ one run of main() (SpecCLI)
Modes == {"sketch", "color"}
\* --max-size as typed: an integer, or text int() rejects
SizeTexts ==
    {[int |-> TRUE, v |-> n] : n \in {-1, 0, 2, ColorDefaultSize, DefaultMaxSize}}
    \cup {[int |-> FALSE, v |-> 0]}

InitCLI ==
    /\ SamplerIdle
    /\ EmitIdle
    /\ GuiIdle
    /\ c_argv \in [image : {""} \cup Names, max_size : SizeTexts,
                   mode : Modes \cup {"bogus"}]
    /\ \E m \in Modes :
          /\ c_argv.mode \in Modes => m = c_argv.mode
          /\ c_argv.mode \notin Modes => m = "sketch"
          /\ c_fs \in [Names -> Entries(m)]
    /\ c_fs["notes.txt"].type /= "dir"
    /\ c_fs["notes.txt"].mtime <= 1
    /\ c_pc = "start"
    /\ c_fail = "none"
    /\ c_args = <<>>
    /\ c_image_path = ""
    /\ c_sample = <<>>
    /\ c_code = <<>>
    /\ \E t \in {<<>>, <<Line(0, "# an older script")>>}, wr \in BOOLEAN :
          c_out = [writable |-> wr, old |-> t, text |-> t]
    /\ c_count = [opens |-> 0, writes |-> 0, runs |-> 0]

\* l.132-168: parse_args.  argparse ends the run (SystemExit) on --max-size
\* text that int() rejects and on a --mode outside its choices; any integer
\* is accepted as max_size.
ParseArgs ==
    /\ c_pc = "start"
    /\ IF ~c_argv.max_size.int \/ c_argv.mode \notin Modes
       THEN /\ c_pc' = "exit"
            /\ c_fail' = "parse"
            /\ UNCHANGED c_args
       ELSE /\ c_pc' = "parsed"
            /\ c_args' = [image |-> c_argv.image, max_size |-> c_argv.max_size.v,
                          mode |-> c_argv.mode]
            /\ UNCHANGED c_fail
    /\ UNCHANGED <<c_argv, c_fs, c_image_path, c_sample, c_code, c_out, c_count>>
    /\ UNCHANGED <<svars, evars, gvars>>

\* l.170-175: image_path = Path(args.image) or find_latest_image(cwd)
ResolveImage ==
    /\ c_pc = "parsed"
    /\ IF c_args.image /= ""
       THEN /\ c_image_path' = c_args.image
            /\ c_pc' = "resolved"
            /\ UNCHANGED c_fail
       ELSE IF FindLatestImage(c_fs) = {}
       THEN /\ c_pc' = "exit"
            /\ c_fail' = "resolve"
            /\ UNCHANGED c_image_path
       ELSE /\ c_image_path' \in FindLatestImage(c_fs)
            /\ c_pc' = "resolved"
            /\ UNCHANGED c_fail
    /\ UNCHANGED <<c_argv, c_fs, c_args, c_sample, c_code, c_out, c_count>>
    /\ UNCHANGED <<svars, evars, gvars>>

\* Mutant of CheckIsFile: the is_file() test is missing.
CheckIsFileSkipped ==
    /\ c_pc = "resolved"
    /\ c_pc' = "checked"
    /\ UNCHANGED <<c_argv, c_fs, c_fail, c_args, c_image_path, c_sample, c_code, c_out, c_count>>
    /\ UNCHANGED <<svars, evars, gvars>>

\* l.177-180: if not image_path.is_file(): raise SystemExit
CheckIsFile ==
    /\ c_pc = "resolved"
    /\ IF IsFile(c_fs, c_image_path)
       THEN c_pc' = "checked" /\ UNCHANGED c_fail
       ELSE c_pc' = "exit" /\ c_fail' = "check"
    /\ UNCHANGED <<c_argv, c_fs, c_args, c_image_path, c_sample, c_code, c_out, c_count>>
    /\ UNCHANGED <<svars, evars, gvars>>

\* A size rule that halves the default in both modes.
EffectiveSizeAnyMode(mode, requested) ==
    IF requested /= DefaultMaxSize THEN requested ELSE ColorDefaultSize

\* l.187: size = args.max_size if args.max_size != 160 else 80
EffectiveSize(mode, requested) ==
    IF mode = "sketch" THEN requested
    ELSE IF requested /= DefaultMaxSize THEN requested ELSE ColorDefaultSize

\* l.183 / l.188: the image_to_points_* call
Sample ==
    /\ c_pc = "checked"
    /\ \E o \in SampleOutcomes(ImageAt(c_fs, c_image_path), c_args.mode,
                               EffectiveSize(c_args.mode, c_args.max_size)) :
          /\ c_sample' = o @@ [max_size |-> EffectiveSize(c_args.mode, c_args.max_size)]
          /\ c_count' = [c_count EXCEPT !.opens = @ + (IF o.opened THEN 1 ELSE 0)]
          /\ IF o.exc = "none"
             THEN c_pc' = "sampled" /\ UNCHANGED c_fail
             ELSE c_pc' = "error" /\ c_fail' = "sample"
    /\ UNCHANGED <<c_argv, c_fs, c_args, c_image_path, c_code, c_out>>
    /\ UNCHANGED <<svars, evars, gvars>>

\* l.184 / l.189: the generate_python_code_* call
Emit ==
    /\ c_pc = "sampled"
    /\ c_code' = GenerateCode(c_args.mode, c_sample.size[1], c_sample.size[2],
                              c_sample.points)
    /\ c_pc' = "emitted"
    /\ UNCHANGED <<c_argv, c_fs, c_fail, c_args, c_image_path, c_sample, c_out, c_count>>
    /\ UNCHANGED <<svars, evars, gvars>>

\* Mutant of WriteOut: the write sits in a finally clause, so it also runs,
\* with whatever code holds, after the sampler raised.
WriteOutInFinally ==
    /\ \/ c_pc = "emitted"
       \/ c_pc = "error" /\ c_fail = "sample" /\ c_count.writes = 0
    /\ c_out.writable
    /\ c_out' = [c_out EXCEPT !.text = c_code]
    /\ c_count' = [c_count EXCEPT !.writes = @ + 1]
    /\ c_pc' = IF c_pc = "emitted" THEN "written" ELSE "error"
    /\ UNCHANGED <<c_argv, c_fs, c_fail, c_args, c_image_path, c_sample, c_code>>
    /\ UNCHANGED <<svars, evars, gvars>>

\* l.191-194: out_path.write_text(code); a file that cannot be opened for
\* writing raises and is left as it was.
WriteOut ==
    /\ c_pc = "emitted"
    /\ IF c_out.writable
       THEN /\ c_out' = [c_out EXCEPT !.text = c_code]
            /\ c_count' = [c_count EXCEPT !.writes = @ + 1]
            /\ c_pc' = "written"
            /\ UNCHANGED c_fail
       ELSE /\ c_pc' = "error"
            /\ c_fail' = "write"
            /\ UNCHANGED <<c_out, c_count>>
    /\ UNCHANGED <<c_argv, c_fs, c_args, c_image_path, c_sample, c_code>>
    /\ UNCHANGED <<svars, evars, gvars>>

\* l.197: runpy.run_path(str(out_path))
RunScript ==
    /\ c_pc = "written"
    /\ c_count' = [c_count EXCEPT !.runs = @ + 1]
    /\ c_pc' = "done"
    /\ UNCHANGED <<c_argv, c_fs, c_fail, c_args, c_image_path, c_sample, c_code, c_out>>
    /\ UNCHANGED <<svars, evars, gvars>>

NextCLI ==
    \/ ParseArgs
    \/ ResolveImage
    \/ CheckIsFile
    \/ Sample
    \/ Emit
    \/ WriteOut
    \/ RunScript

SpecCLI == InitCLI /\ [][NextCLI]_vars

\* ------------------------------------------------ the MainWindow (SpecGUI)
\* What a file of the working directory may hold while the window is open.
GuiContents ==
    { [kind |-> "single", w |-> 3, h |-> 3, uniform |-> TRUE, level |-> 100],
      [kind |-> "multi", w |-> 1, h |-> 2, uniform |-> TRUE, level |-> 255],
      [kind |-> "truncated", w |-> 1, h |-> 1, uniform |-> TRUE, level |-> 0] }
\* After convert("RGB") a grey level v is the colour (v, v, v).
AsMode(f, mode) ==
    IF mode = "sketch" THEN f ELSE [f EXCEPT !.level = <<f.level, f.level, f.level>>]
\* a.png: missing, a single-frame image or a truncated one (mtime 1);
\* b.gif: missing or a multi-frame image (mtime 2); notes.txt: missing.
GuiEntries(n) ==
    IF n = "a.png"
    THEN {Absent} \cup {[type |-> "file", mtime |-> 1, img |-> i] :
                           i \in {c \in GuiContents : c.kind /= "multi"}}
    ELSE IF n = "b.gif"
    THEN {Absent} \cup {[type |-> "file", mtime |-> 2, img |-> i] :
                           i \in {c \in GuiContents : c.kind = "multi"}}
    ELSE {Absent}

\* str.strip() of the texts a user types into the path field
PathTexts == {"", " ", "a.png", "b.gif"}
Strip(t) == IF t = " " THEN "" ELSE t
\* Path.stem
Stem == [n \in Names |-> IF n = "a.png" THEN "a" ELSE IF n = "b.gif" THEN "b" ELSE "notes"]
SpinValues == {SpinMin, SpinDefault, SpinMax}

\* MainWindow.__init__ (l.145-152) and the widgets _build_image_panel and
\* _build_code_panel create (l.238-309, l.367-368)
InitGUI ==
    /\ SamplerIdle
    /\ EmitIdle
    /\ CliIdle
    /\ g_fs \in {f \in [Names -> UNION {GuiEntries(n) : n \in Names}] :
                    \A n \in Names : f[n] \in GuiEntries(n)}
    /\ g_running = TRUE
    /\ g_path_text = ""
    /\ g_mode = "sketch"
    /\ g_max_size = SpinDefault
    /\ g_current_image = "<None>"
    /\ g_current_code = <<>>
    /\ g_code_edit = <<>>
    /\ g_save_enabled = FALSE
    /\ g_preview_enabled = FALSE
    /\ g_status = ""
    /\ g_dialog = "none"
    /\ g_saved = <<>>
    /\ g_previewed = <<>>
    /\ g_last = [slot |-> "none", nofile |-> FALSE, kept |-> TRUE, call |-> <<>>]

\* The user types into image_path_edit (an editable QLineEdit, l.238).
EditPath ==
    /\ g_running
    /\ \E t \in PathTexts : g_path_text' = t
    /\ UNCHANGED <<g_fs, g_running, g_mode, g_max_size, g_current_image,
                   g_current_code, g_code_edit, g_save_enabled, g_preview_enabled,
                   g_status, g_dialog, g_saved, g_previewed, g_last>>
    /\ UNCHANGED <<svars, evars, cvars>>

\* The user picks a radio button (l.252-254).
SetMode ==
    /\ g_running
    /\ \E m \in Modes : g_mode' = m
    /\ UNCHANGED <<g_fs, g_running, g_path_text, g_max_size, g_current_image,
                   g_current_code, g_code_edit, g_save_enabled, g_preview_enabled,
                   g_status, g_dialog, g_saved, g_previewed, g_last>>
    /\ UNCHANGED <<svars, evars, cvars>>

\* The user changes max_size_spin, which keeps its value in 32..512 (l.269-271).
SetMaxSize ==
    /\ g_running
    /\ \E v \in SpinValues : g_max_size' = v
    /\ UNCHANGED <<g_fs, g_running, g_path_text, g_mode, g_current_image,
                   g_current_code, g_code_edit, g_save_enabled, g_preview_enabled,
                   g_status, g_dialog, g_saved, g_previewed, g_last>>
    /\ UNCHANGED <<svars, evars, cvars>>

\* The state the claims about generate_code speak of.
Shown == <<g_current_code, g_code_edit, g_save_enabled, g_preview_enabled>>

\* browse_image (l.417-427): the file dialog returns an existing file, or ""
\* when cancelled.
BrowseImage ==
    /\ g_running
    /\ \E picked \in {""} \cup {n \in Names : IsFile(g_fs, n)} :
          IF picked /= ""
          THEN g_path_text' = picked /\ g_current_image' = picked
          ELSE UNCHANGED <<g_path_text, g_current_image>>
    /\ g_dialog' = "none"
    /\ g_last' = [slot |-> "browse", nofile |-> FALSE, kept |-> TRUE, call |-> <<>>]
    /\ UNCHANGED <<g_fs, g_running, g_mode, g_max_size, g_current_code, g_code_edit,
                   g_save_enabled, g_preview_enabled, g_status, g_saved, g_previewed>>
    /\ UNCHANGED <<svars, evars, cvars>>

\* gui l.458
GuiEffectiveSize(mode, requested) ==
    IF mode = "sketch" THEN requested
    ELSE IF requested /= GuiSwappedSize THEN requested ELSE GuiColorSize

\* status_label texts of l.455 and l.461
GeneratedStatus(mode, points) ==
    IF mode = "sketch"
    THEN "Generated sketch code with " \o Str(Len(points)) \o " edge points."
    ELSE "Generated color code with " \o Str(Len(points)) \o " pixels."

\* generate_code (l.429-470), the slot of the Generate button.
\*   l.436: find_latest_image raises SystemExit when no candidate exists; the
\*          call is outside the try block, SystemExit is no Exception, and an
\*          exception that leaves a slot ends the application.
GenerateCode_NoCandidate ==
    /\ g_running
    /\ Strip(g_path_text) = ""
    /\ FindLatestImage(g_fs) = {}
    /\ g_running' = FALSE
    /\ g_dialog' = "none"
    /\ g_last' = [slot |-> "generate", nofile |-> TRUE, kept |-> TRUE, call |-> <<>>]
    /\ UNCHANGED <<g_fs, g_path_text, g_mode, g_max_size, g_current_image,
                   g_current_code, g_code_edit, g_save_enabled, g_preview_enabled,
                   g_status, g_saved, g_previewed>>
    /\ UNCHANGED <<svars, evars, cvars>>

\* The image path generate_code resolves (l.431-436), when there is one.
GuiImagePaths ==
    IF Strip(g_path_text) /= "" THEN {Strip(g_path_text)} ELSE FindLatestImage(g_fs)

\*   l.438-440: not a file: a warning box, and return.
GenerateCode_NotFound ==
    /\ g_running
    /\ \E img_path \in GuiImagePaths :
          /\ ~IsFile(g_fs, img_path)
          /\ g_dialog' = "warning"
          /\ g_last' = [slot |-> "generate", nofile |-> TRUE, kept |-> TRUE, call |-> <<>>]
    /\ UNCHANGED <<g_fs, g_running, g_path_text, g_mode, g_max_size, g_current_image,
                   g_current_code, g_code_edit, g_save_enabled, g_preview_enabled,
                   g_status, g_saved, g_previewed>>
    /\ UNCHANGED <<svars, evars, cvars>>

\* A generate_code whose except branch clears the code panel and disables
\* the buttons.
GenerateCode_RunClearing ==
    /\ g_running
    /\ \E img_path \in GuiImagePaths :
          /\ IsFile(g_fs, img_path)
          /\ g_current_image' = img_path
          /\ \E o \in SampleOutcomes(AsMode(ImageAt(g_fs, img_path), g_mode), g_mode,
                                     GuiEffectiveSize(g_mode, g_max_size)) :
                IF o.exc = "none"
                THEN /\ g_current_code' = GenerateCode(g_mode, o.size[1], o.size[2], o.points)
                     /\ g_code_edit' = g_current_code'
                     /\ g_save_enabled' = TRUE
                     /\ g_preview_enabled' = TRUE
                     /\ g_status' = GeneratedStatus(g_mode, o.points)
                     /\ g_dialog' = "none"
                ELSE /\ g_status' = "Generation failed."
                     /\ g_dialog' = "critical"
                     /\ g_code_edit' = <<>>
                     /\ g_save_enabled' = FALSE
                     /\ g_preview_enabled' = FALSE
                     /\ UNCHANGED g_current_code
    /\ g_last' = [slot |-> "generate", nofile |-> FALSE, kept |-> Shown' = Shown,
                  call |-> [mode |-> g_mode, requested |-> g_max_size,
                            max_size |-> GuiEffectiveSize(g_mode, g_max_size)]]
    /\ UNCHANGED <<g_fs, g_running, g_path_text, g_mode, g_max_size, g_saved, g_previewed>>
    /\ UNCHANGED <<svars, evars, cvars>>

\*   l.442-470: sample and emit inside try / except Exception.
GenerateCode_Run ==
    /\ g_running
    /\ \E img_path \in GuiImagePaths :
          /\ IsFile(g_fs, img_path)
          /\ g_current_image' = img_path
          /\ \E o \in SampleOutcomes(AsMode(ImageAt(g_fs, img_path), g_mode), g_mode,
                                     GuiEffectiveSize(g_mode, g_max_size)) :
                IF o.exc = "none"
                THEN /\ g_current_code' = GenerateCode(g_mode, o.size[1], o.size[2], o.points)
                     /\ g_code_edit' = g_current_code'
                     /\ g_save_enabled' = TRUE
                     /\ g_preview_enabled' = TRUE
                     /\ g_status' = GeneratedStatus(g_mode, o.points)
                     /\ g_dialog' = "none"
                ELSE /\ g_status' = "Generation failed."
                     /\ g_dialog' = "critical"
                     /\ UNCHANGED <<g_current_code, g_code_edit, g_save_enabled,
                                    g_preview_enabled>>
    /\ g_last' = [slot |-> "generate", nofile |-> FALSE, kept |-> Shown' = Shown,
                  call |-> [mode |-> g_mode, requested |-> g_max_size,
                            max_size |-> GuiEffectiveSize(g_mode, g_max_size)]]
    /\ UNCHANGED <<g_fs, g_running, g_path_text, g_mode, g_max_size, g_saved, g_previewed>>
    /\ UNCHANGED <<svars, evars, cvars>>

\* save_code (l.472-494): nothing without code; the save dialog is offered
\* <stem>.py and returns a path, or "" when cancelled; a failed write shows a
\* critical box.
SaveCode ==
    /\ g_running
    /\ IF g_current_code = <<>>
       THEN UNCHANGED <<g_saved, g_status>> /\ g_dialog' = "none"
       ELSE LET default_name ==
                    IF g_current_image /= "<None>"
                    THEN Stem[g_current_image] \o ".py" ELSE "image_code.py"
            IN  \E answer \in {"cancel", "accept", "unwritable"} :
                  IF answer = "cancel"
                  THEN UNCHANGED <<g_saved, g_status>> /\ g_dialog' = "none"
                  ELSE IF answer = "accept"
                  THEN /\ g_saved' = [name |-> default_name, text |-> g_current_code]
                       /\ g_status' = "Saved: " \o default_name
                       /\ g_dialog' = "none"
                  ELSE /\ g_dialog' = "critical"
                       /\ UNCHANGED <<g_saved, g_status>>
    /\ g_last' = [slot |-> "save", nofile |-> FALSE, kept |-> TRUE, call |-> <<>>]
    /\ UNCHANGED <<g_fs, g_running, g_path_text, g_mode, g_max_size, g_current_image,
                   g_current_code, g_code_edit, g_save_enabled, g_preview_enabled,
                   g_previewed>>
    /\ UNCHANGED <<svars, evars, cvars>>

\* preview_code (l.496-513): nothing without code; otherwise the code is
\* written to a temporary file and run; a failure shows a critical box.
PreviewCode ==
    /\ g_running
    /\ IF g_current_code = <<>>
       THEN UNCHANGED g_previewed /\ g_dialog' = "none"
       ELSE \E ok \in BOOLEAN :
              /\ g_previewed' = g_current_code
              /\ g_dialog' = IF ok THEN "none" ELSE "critical"
    /\ g_last' = [slot |-> "preview", nofile |-> FALSE, kept |-> TRUE, call |-> <<>>]
    /\ UNCHANGED <<g_fs, g_running, g_path_text, g_mode, g_max_size, g_current_image,
                   g_current_code, g_code_edit, g_save_enabled, g_preview_enabled,
                   g_status, g_saved>>
    /\ UNCHANGED <<svars, evars, cvars>>

NextGUI ==
    \/ EditPath
    \/ SetMode
    \/ SetMaxSize
    \/ BrowseImage
    \/ GenerateCode_NoCandidate
    \/ GenerateCode_NotFound
    \/ GenerateCode_Run
    \/ SaveCode
    \/ PreviewCode

SpecGUI == InitGUI /\ [][NextGUI]_vars

\* ------------------- one request put to main() and to the window (SpecSize)
\* The sizes both front ends accept: the range of max_size_spin (l.270);
\* --max-size takes any of them.
SizeRequests == SpinMin .. SpinMax
\* a.png is a 3x3 image, nothing else is in the folder.
OneImage(img) ==
    [n \in Names |-> IF n = "a.png" THEN [type |-> "file", mtime |-> 1, img |-> img]
                     ELSE Absent]

\* main() is started with --image a.png --max-size r --mode m; the window has
\* a.png in its path field, mode m checked and r in the spin box.
InitSize ==
    /\ SamplerIdle
    /\ EmitIdle
    /\ \E m \in Modes, r \in SizeRequests :
          /\ c_argv = [image |-> "a.png", max_size |-> [int |-> TRUE, v |-> r], mode |-> m]
          /\ c_fs = OneImage(CHOOSE c \in Contents(m) : c.kind = "single")
          /\ g_mode = m
          /\ g_max_size = r
    /\ c_pc = "start"
    /\ c_fail = "none"
    /\ c_args = <<>>
    /\ c_image_path = ""
    /\ c_sample = <<>>
    /\ c_code = <<>>
    /\ c_out = [writable |-> TRUE, old |-> <<>>, text |-> <<>>]
    /\ c_count = [opens |-> 0, writes |-> 0, runs |-> 0]
    /\ g_fs = OneImage(CHOOSE c \in GuiContents : c.kind = "single")
    /\ g_running = TRUE
    /\ g_path_text = "a.png"
    /\ g_current_image = "<None>"
    /\ g_current_code = <<>>
    /\ g_code_edit = <<>>
    /\ g_save_enabled = FALSE
    /\ g_preview_enabled = FALSE
    /\ g_status = ""
    /\ g_dialog = "none"
    /\ g_saved = <<>>
    /\ g_previewed = <<>>
    /\ g_last = [slot |-> "none", nofile |-> FALSE, kept |-> TRUE, call |-> <<>>]

NextSize ==
    \/ ParseArgs
    \/ ResolveImage
    \/ CheckIsFile
    \/ Sample
    \/ GenerateCode_Run

SpecSize == InitSize /\ [][NextSize]_vars

\* ------------------------------------------------------------ claims (Spec)
Returned == pc = "returned"
Resized == ret.size /= <<file.w, file.h>>

\* C1: for every decodable image of size (W0, H0) and every max_size >= 1,
\* both samplers return (width, height) with max(width, height) <= max_size,
\* width <= W0, height <= H0 and width, height >= 1.
C1_SizeBounded ==
    (Returned /\ max_size >= 1) =>
        /\ Max2(ret.size[1], ret.size[2]) <= max_size
        /\ ret.size[1] <= file.w /\ ret.size[2] <= file.h
        /\ ret.size[1] >= 1 /\ ret.size[2] >= 1
\* A colour call that shrank a wide image down to height 1.
C1_Witness ==
    /\ Returned /\ fn = "color" /\ Resized
    /\ file.w > file.h /\ ret.size[2] = 1 /\ ret.size[1] = max_size

RECURSIVE SumOver(_, _)
\* The sum of a over the coordinates S, in no particular order.
SumOver(a, S) ==
    IF S = {} THEN 0
    ELSE LET c == CHOOSE d \in S : TRUE IN a[c] + SumOver(a, S \ {c})
\* The coordinates strictly above the mean, recounted from the grid.
Recount(a, w, h) ==
    {c \in Coords(w, h) : a[c] * w * h > SumOver(a, Coords(w, h))}
ElementsOf(q) == {q[i] : i \in 1 .. Len(q)}
NoRepeats(q) == \A i, j \in 1 .. Len(q) : q[i] = q[j] => i = j

\* C2: image_to_points_sketch returns exactly the coordinates whose filtered
\* intensity is strictly greater than the mean of all filtered intensities
\* (value * width * height > sum), each once; the count is <= width * height
\* and equals an independent recount.
C2_PointsAreAboveMean ==
    (Returned /\ fn = "sketch") =>
        LET w == ret.size[1]
            h == ret.size[2]
        IN  /\ ElementsOf(ret.points) = Recount(arr, w, h)
            /\ NoRepeats(ret.points)
            /\ Len(ret.points) = Cardinality(Recount(arr, w, h))
            /\ Len(ret.points) <= w * h
\* A sketch call on a grid the filter changed, where some pixels are
\* selected and some are not.
C2_Witness ==
    /\ Returned /\ fn = "sketch"
    /\ arr /= pix
    /\ ret.points /= <<>>
    /\ Len(ret.points) < ret.size[1] * ret.size[2]

\* C3: a uniform image in sketch mode yields an empty point list.
C3_UniformYieldsNoPoints ==
    (Returned /\ fn = "sketch" /\ file.uniform) => ret.points = <<>>

\* C4: image_to_points_color returns exactly width * height points in
\* row-major order: the point at index y * width + x is (x, y, colour of
\* pixel (x, y)).
C4_ColorRowMajor ==
    (Returned /\ fn = "color") =>
        LET w == ret.size[1]
            h == ret.size[2]
        IN  /\ Len(ret.points) = w * h
            /\ \A c \in Coords(w, h) :
                  ret.points[c[2] * w + c[1] + 1] = <<c[1], c[2], pix[c]>>
\* A colour call on a non-square, non-uniform grid.
C4_Witness ==
    /\ Returned /\ fn = "color"
    /\ ret.size[1] >= 2 /\ ret.size[2] >= 2 /\ ret.size[1] /= ret.size[2]
    /\ ~IsUniform(pix)

\* C9: no file handle remains open after a sampling call returns or raises.
C9_HandleReleasedAtExit ==
    pc \in {"returned", "raised"} => fp /= "open"

\* ------------------------------------------------------- claims (SpecEmit)
ChannelsOf(p) == IF Len(p) = 3 THEN {p[3][i] : i \in 1 .. 3} ELSE {}
\* A negative width, height or coordinate, or a colour channel outside 0..255.
OutOfRange(width, height, points) ==
    \/ width < 0
    \/ height < 0
    \/ \E i \in 1 .. Len(points) :
          \/ points[i][1] < 0 \/ points[i][2] < 0
          \/ \E ch \in ChannelsOf(points[i]) : ch < 0 \/ ch > 255

\* C8: an emitter given out-of-range numeric inputs fails with
\* InvalidInputError rather than returning script text.
C8_EmitterRejectsBadInput ==
    (e_pc = "done" /\ OutOfRange(e_width, e_height, e_points)) =>
        (e_exc = "InvalidInputError" /\ e_text = <<>>)

\* -------------------------------------------------------- claims (SpecCLI)
Untouched == c_out.text = c_out.old /\ c_count.writes = 0

\* C5: the output file is written only after sampling and emission have both
\* completed, and then holds the complete generated script; a run that fails
\* in image resolution, decoding, sampling or emission ends in an error with
\* the output file never written or modified.
C5_NoPartialOutput ==
    /\ ~Untouched =>
          /\ c_pc \in {"written", "done"}
          /\ c_sample.exc = "none"
          /\ c_count.writes = 1
          /\ c_out.text = c_code
          /\ c_code = GenerateCode(c_args.mode, c_sample.size[1], c_sample.size[2],
                                   c_sample.points)
          /\ c_code[Len(c_code)] = Line(4, "main()")
    /\ c_pc \in {"exit", "error"} /\ c_fail \in {"parse", "resolve", "check", "sample"}
          => Untouched
    /\ c_pc \in {"start", "parsed", "resolved", "checked", "sampled", "emitted"}
          => Untouched
\* A run that replaced an older script with a newly generated one.
C5_Witness ==
    /\ c_pc = "done"
    /\ c_out.old /= <<>>
    /\ c_out.text /= c_out.old
    /\ c_sample.points /= <<>>

NoCandidate == c_argv.image = "" /\ Candidates(c_fs) = {}
NotAFile == c_image_path /= "" /\ ~IsFile(c_fs, c_image_path)
\* C6: if --image is omitted and the working directory holds no file with an
\* allowed extension, or if the resolved image path is not an existing file,
\* the run ends in a fatal error before any decode, sampling, emission,
\* output-file write or script execution.
C6_FatalBeforeAnyWork ==
    (NoCandidate \/ NotAFile) =>
        /\ c_pc \in {"start", "parsed", "resolved", "exit"}
        /\ c_count = [opens |-> 0, writes |-> 0, runs |-> 0]
        /\ c_code = <<>>
        /\ Untouched
\* A run that found no candidate although the directory holds a file.
C6_Witness ==
    /\ c_pc = "exit" /\ c_fail = "resolve"
    /\ NoCandidate
    /\ IsFile(c_fs, "notes.txt")

\* max_size is not a positive integer, or mode is not sketch / color.
InvalidRequest ==
    \/ ~c_argv.max_size.int
    \/ c_argv.max_size.v < 1
    \/ c_argv.mode \notin Modes
\* C7: a max_size or mode outside the accepted domain is rejected before any
\* decode work begins; no image is opened for such a request.
C7_InvalidRejectedBeforeDecode ==
    InvalidRequest => (c_count.opens = 0 /\ c_pc \notin {"sampled", "emitted", "written", "done"})

\* -------------------------------------------------------- claims (SpecGUI)
\* C10: when Generate is triggered and the resolved image path does not
\* exist, or the path field is empty and the folder holds no image file, the
\* condition is shown in a dialog and the application keeps running with its
\* generated code, displayed code and button states unchanged.
C10_MissingImageShowsDialog ==
    (g_last.slot = "generate" /\ g_last.nofile) =>
        (g_running /\ g_dialog /= "none" /\ g_last.kept)

\* Same emitter, same (width, height, points).
SameArgsAsPrev ==
    /\ e_prev /= <<>>
    /\ e_prev.fn = e_fn /\ e_prev.width = e_width
    /\ e_prev.height = e_height /\ e_prev.points = e_points

PointsLine(mode) == IF mode = "sketch" THEN 4 ELSE 5
\* Lines of the template.
TemplateLines(mode) == IF mode = "sketch" THEN 20 ELSE 25
\* A point list that is not empty, to compare with.
SomePoints(mode) ==
    IF mode = "sketch" THEN << <<0, 0>> >> ELSE << <<0, 0, <<255, 0, 0>>>> >>
HasLine(text, l) == \E i \in 1 .. Len(text) : text[i] = l

\* C12: an emitter given an empty point list returns the complete template:
\* the width and height constants, an empty point collection, and after it
\* the same rendering routine, line for line, as for a non-empty list.
C12_EmptyPointsFullTemplate ==
    (e_pc = "done" /\ e_points = <<>>) =>
        LET full == GenerateCode(e_fn, e_width, e_height, SomePoints(e_fn))
            k    == PointsLine(e_fn)
        IN  /\ e_exc = "none"
            /\ Len(e_text) = TemplateLines(e_fn)
            /\ Len(e_text) = Len(full)
            /\ e_text[3] = Line(0, "WIDTH, HEIGHT = " \o Str(e_width)
                                       \o ", " \o Str(e_height))
            /\ e_text[k] = Line(0, "POINTS = []")
            /\ \A i \in 1 .. Len(e_text) : i /= k => e_text[i] = full[i]
            /\ HasLine(e_text, Line(0, "def main():"))
            /\ HasLine(e_text, Line(4, "plt.show()"))
            /\ e_text[Len(e_text) - 1] = Line(0, "if __name__ == \"__main__\":")
            /\ e_text[Len(e_text)] = Line(4, "main()")

\* width=10, height=10, points=[] went through both emitters.
C12_Witness ==
    /\ e_pc = "done" /\ e_fn = "color"
    /\ e_width = 10 /\ e_height = 10 /\ e_points = <<>>
    /\ e_text[3] = Line(0, "WIDTH, HEIGHT = 10, 10")
    /\ e_prev /= <<>> /\ e_prev.fn = "sketch"
    /\ e_prev.width = 10 /\ e_prev.height = 10 /\ e_prev.points = <<>>
    /\ Len(e_prev.text) = 20

\* ------------------------------------------------------- claims (SpecSize)
\* The size the sampler is to get for a request.
SizeFor(mode, requested) ==
    IF mode = "color" /\ requested = 160 THEN 80 ELSE requested
CliSampled == c_sample /= <<>>
GuiSampled == g_last.call /= <<>>

\* C13: main() and the window pass the sampler the requested size unchanged
\* in sketch mode and, in colour mode, 80 for a request of 160 and the
\* requested size otherwise; so colour mode never samples with 160, and both
\* front ends pass the same size for the same (mode, requested size).
C13_EffectiveSize ==
    /\ CliSampled =>
          /\ c_sample.max_size = SizeFor(c_args.mode, c_args.max_size)
          /\ ~(c_args.mode = "color" /\ c_sample.max_size = 160)
    /\ GuiSampled =>
          /\ g_last.call.max_size = SizeFor(g_last.call.mode, g_last.call.requested)
          /\ ~(g_last.call.mode = "color" /\ g_last.call.max_size = 160)
    /\ (CliSampled /\ GuiSampled /\ c_args.mode = g_last.call.mode
          /\ c_args.max_size = g_last.call.requested) =>
              c_sample.max_size = g_last.call.max_size

\* Colour mode, 160 requested: both front ends sampled with 80.
C13_Witness ==
    /\ CliSampled /\ GuiSampled
    /\ c_args.mode = "color" /\ c_args.max_size = 160 /\ c_sample.max_size = 80
    /\ c_sample.exc = "none"
    /\ g_last.call = [mode |-> "color", requested |-> 160, max_size |-> 80]
    /\ g_current_code /= <<>>

\* ------------------------------------------------- claims (SpecGUI), cont.
\* The last slot was a generate_code whose sampler or emitter raised.
FailedGeneration ==
    g_last.slot = "generate" /\ g_last.call /= <<>> /\ g_dialog = "critical"
ButtonsConsistent ==
    (g_save_enabled \/ g_preview_enabled) =>
        (g_current_code /= <<>> /\ g_code_edit = g_current_code)
ButtonsStayEnabled ==
    /\ g_save_enabled => g_save_enabled'
    /\ g_preview_enabled => g_preview_enabled'

\* C14: over any sequence of browse, generate, save and preview: the Save and
\* Run-preview buttons are enabled only if _current_code is non-empty and is
\* the text shown in the code panel; once enabled they are never disabled;
\* and a generation that fails inside sampling or emission leaves
\* _current_code, the displayed code and both buttons as they were.
C14_ButtonsFollowCode ==
    /\ [](ButtonsConsistent /\ (FailedGeneration => g_last.kept))
    /\ [][ButtonsStayEnabled]_vars

\* A generation failed after an earlier one had succeeded.
C14_Witness ==
    /\ FailedGeneration /\ g_last.kept
    /\ g_save_enabled /\ g_preview_enabled
    /\ g_current_code /= <<>> /\ g_code_edit = g_current_code
    /\ g_status = "Generation failed."

\* The code draws the image in file n: its WIDTH, HEIGHT line gives the size
\* of that image (the files of the folder differ in size, and no spin box
\* value is small enough to shrink them).
DrawsImage(code, n) ==
    /\ IsFile(g_fs, n)
    /\ code[3] = Line(0, "WIDTH, HEIGHT = " \o Str(g_fs[n].img.w)
                             \o ", " \o Str(g_fs[n].img.h))

\* C15: over any sequence of browse, generate and save: whenever
\* _current_code is non-empty, _current_image is the image that code was
\* generated from, so the file name save_code offers (<image stem>.py) names
\* the image the saved code draws.
C15_CurrentImageMatchesCode ==
    /\ g_current_code /= <<>> =>
          (g_current_image /= "<None>" /\ DrawsImage(g_current_code, g_current_image))
    /\ g_saved /= <<>> =>
          \E n \in Names : g_saved.name = Stem[n] \o ".py" /\ DrawsImage(g_saved.text, n)

====
